---- MODULE Spec2Model ----
(***************************************************************************)
(* Social Security household projection (ss.py): calendar arithmetic,      *)
(* benefit formulas, the survivor resolver and the year loop of            *)
(* project_social_security.                                                *)
(*                                                                         *)
(* Dates are triples <<year, month, day>>.  Dollar amounts are exact       *)
(* rationals w + f/Den kept as pairs <<w, f>> with 0 <= f < Den; Den is    *)
(* the common denominator of every rate the formulas use (1/180, 1/240,    *)
(* 1/150, 1/144, 1/2 and 0.00396 = 99/25000), so the model computes the    *)
(* formulas without rounding.  The float rounding of the Python build      *)
(* (relative error about 1e-16 per operation) is not modelled.             *)
(***************************************************************************)
EXTENDS Integers, Sequences, FiniteSets, TLC

VARIABLES
    people,       \* project_social_security: the list of Person records
    start,        \* its start date
    years,        \* its horizon
    pc,           \* "call" while a call runs, "done" once it has returned
    y,            \* the year index of the loop (0 before the first iteration)
    rows,         \* the rows appended so far
    own,          \* the loop's dictionaries, as the last iteration left them
    own_months,
    spousal,
    total,
    surv_args,    \* survivor_annual called alone: <<survivor, decedent, death_date>>
    surv_result,  \* its locals and its return value
    call,         \* a helper called alone: <<function name, arguments...>>
    ret           \* its outcome: the value returned, or the exception raised

vars == <<people, start, years, pc, y, rows, own, own_months, spousal, total,
          surv_args, surv_result, call, ret>>

\* ---------------------------------------------------------------- amounts

Den == 3600 * 25000

Min(a, b) == IF a <= b THEN a ELSE b

Max(a, b) == IF a >= b THEN a ELSE b

\* n/d as an amount, for d dividing Den
Frac(n, d) == <<n \div d, (n % d) * (Den \div d)>>

Zero == <<0, 0>>

None == <<>>

MNorm(w, f) == <<w + (f \div Den), f % Den>>

MAdd(a, b) == MNorm(a[1] + b[1], a[2] + b[2])

MSub(a, b) == MNorm(a[1] - b[1], a[2] - b[2])

MLeq(a, b) == a[1] < b[1] \/ (a[1] = b[1] /\ a[2] <= b[2])

MMax(a, b) == IF MLeq(b, a) THEN a ELSE b

MMin(a, b) == IF MLeq(a, b) THEN a ELSE b

\* a * k for an integer k with |k| <= 23
MScale(a, k) == MNorm(a[1] * k, a[2] * k)

\* a * n / d, for d dividing both Den and the fractional part of a
MTimesFrac(a, n, d) ==
    LET whole == a[1] * n
        part  == (a[2] \div d) * n
    IN  MNorm(whole \div d, (whole % d) * (Den \div d) + part)

\* a / k for 1 <= k <= 23, exact when a is a multiple of k/Den
MDivInt(a, k) ==
    LET r == a[1] % k
    IN  MNorm(a[1] \div k, (r * Den + a[2]) \div k)

\* round(x, 2), in cents.  An amount exactly halfway between two cents goes to
\* the even cent; the float build sends such a tie up or down with the binary
\* representation of the amount (at most one cent apart).
round2(a) ==
    LET cent == Den \div 100
        q == a[2] \div cent
        r == a[2] % cent
        c == a[1] * 100 + q
    IN  IF 2 * r > cent THEN c + 1
        ELSE IF 2 * r < cent THEN c
        ELSE IF c % 2 = 0 THEN c ELSE c + 1

\* --------------------------------------------------------------- calendar

DateLt(a, b) ==
    \/ a[1] < b[1]
    \/ (a[1] = b[1] /\ a[2] < b[2])
    \/ (a[1] = b[1] /\ a[2] = b[2] /\ a[3] < b[3])

DateLeq(a, b) == a = b \/ DateLt(a, b)

DateMax(a, b) == IF DateLeq(b, a) THEN a ELSE b

DateMin(a, b) == IF DateLeq(a, b) THEN a ELSE b

IsLeap(yr) == yr % 4 = 0 /\ (yr % 100 # 0 \/ yr % 400 = 0)

\* calendar.monthrange(yr, mo)[1]
monthrange(yr, mo) ==
    IF mo = 2 THEN (IF IsLeap(yr) THEN 29 ELSE 28)
    ELSE IF mo \in {4, 6, 9, 11} THEN 30 ELSE 31

\* date(year, month, day): the constructor returns the date, or raises ValueError
\* for a year outside 1..9999 (MINYEAR..MAXYEAR), a month outside 1..12 or a
\* day the month does not have
date(d) ==
    IF d[1] \in 1..9999 /\ d[2] \in 1..12 /\ d[3] \in 1..monthrange(d[1], d[2])
    THEN [raised |-> FALSE, value |-> d]
    ELSE [raised |-> TRUE, value |-> None]

safe_eol_date(dob, life_age) ==
    LET year == dob[1] + life_age
    IN  IF dob[3] <= monthrange(year, dob[2])
        THEN <<year, dob[2], dob[3]>>
        ELSE <<year, dob[2], monthrange(year, dob[2])>>

\* fra_for_birth_year stepping three months a year through 1955-1959
fra_for_birth_year_three_month_steps(by) ==
    IF by <= 1937 THEN <<65, 0>>
    ELSE IF 1938 <= by /\ by <= 1942 THEN <<65, (by - 1937) * 2>>
    ELSE IF 1943 <= by /\ by <= 1954 THEN <<66, 0>>
    ELSE IF 1955 <= by /\ by <= 1959 THEN <<66, (by - 1954) * 3>>
    ELSE <<67, 0>>

fra_for_birth_year(by) ==
    IF by <= 1937 THEN <<65, 0>>
    ELSE IF 1938 <= by /\ by <= 1942 THEN <<65, (by - 1937) * 2>>
    ELSE IF 1943 <= by /\ by <= 1954 THEN <<66, 0>>
    ELSE IF 1955 <= by /\ by <= 1959 THEN <<66, (by - 1954) * 2>>
    ELSE <<67, 0>>

months_between(yrs_a, mos_a, yrs_b, mos_b) ==
    (yrs_a * 12 + mos_a) - (yrs_b * 12 + mos_b)

add_years_months(d, yy, mm) ==
    LET y_total == d[1] + yy + ((d[2] - 1 + mm) \div 12)
        m_total == ((d[2] - 1 + mm) % 12) + 1
    IN  <<y_total, m_total, Min(d[3], monthrange(y_total, m_total))>>

first_of_month(d) == <<d[1], d[2], 1>>

\* add_months with the quotient and remainder truncated toward zero
add_months_truncating(d, mm) ==
    LET x == d[2] - 1 + mm
        q == IF x < 0 THEN 0 - ((0 - x) \div 12) ELSE x \div 12
        y_total == d[1] + q
        m_total == (x - 12 * q) + 1
    IN  <<y_total, m_total, Min(d[3], monthrange(y_total, m_total))>>

add_months(d, mm) ==
    LET y_total == d[1] + ((d[2] - 1 + mm) \div 12)
        m_total == ((d[2] - 1 + mm) % 12) + 1
    IN  <<y_total, m_total, Min(d[3], monthrange(y_total, m_total))>>

age_ym(dob, asof) ==
    LET y0 == asof[1] - dob[1]
        m0 == asof[2] - dob[2]
        m1 == IF asof[3] < dob[3] THEN m0 - 1 ELSE m0
        y2 == IF m1 < 0 THEN y0 - 1 ELSE y0
        m2 == IF m1 < 0 THEN m1 + 12 ELSE m1
    IN  <<Max(y2, 0), Max(m2, 0)>>

months_between_firsts(a, b) == months_between(a[1], a[2], b[1], b[2])

\* clamp_months_in_year counting the end month as paid
clamp_months_in_year_inclusive(start_month, end_month_excl, win_start, win_end_excl) ==
    LET s == first_of_month(DateMax(start_month, win_start))
        e == first_of_month(DateMin(end_month_excl, win_end_excl))
    IN  Max(0, months_between_firsts(e, s) + 1)

\* clamp_months_in_year without the floor at 0
clamp_months_in_year_unfloored(start_month, end_month_excl, win_start, win_end_excl) ==
    LET s == first_of_month(DateMax(start_month, win_start))
        e == first_of_month(DateMin(end_month_excl, win_end_excl))
    IN  months_between_firsts(e, s)

\* clamp_months_in_year counting to the window's end whatever the range's end
clamp_months_in_year_to_window_end(start_month, end_month_excl, win_start, win_end_excl) ==
    LET s == first_of_month(DateMax(start_month, win_start))
        e == first_of_month(win_end_excl)
    IN  Max(0, months_between_firsts(e, s))

clamp_months_in_year(start_month, end_month_excl, win_start, win_end_excl) ==
    LET s == first_of_month(DateMax(start_month, win_start))
        e == first_of_month(DateMin(end_month_excl, win_end_excl))
    IN  Max(0, months_between_firsts(e, s))

\* ------------------------------------------------------- benefit formulas

\* retirement_adjustment without the floor of the early factor at 0.0
retirement_adjustment_unfloored(pia, months_from_fra) ==
    IF months_from_fra = 0 THEN Frac(pia, 1)
    ELSE IF months_from_fra < 0
    THEN LET m == -months_from_fra
             first == Min(m, 36)
             extra == Max(m - 36, 0)
         IN  Frac(pia * (720 - (4 * first + 3 * extra)), 720)
    ELSE Frac(pia * (150 + Min(months_from_fra, 12 * 4)), 150)

retirement_adjustment(pia, months_from_fra) ==
    IF months_from_fra = 0 THEN Frac(pia, 1)
    ELSE IF months_from_fra < 0
    THEN LET m == -months_from_fra
             first == Min(m, 36)
             extra == Max(m - 36, 0)
         IN  \* reduction = first * (5/900) + extra * (5/1200)
             Frac(pia * Max(0, 720 - (4 * first + 3 * extra)), 720)
    ELSE Frac(pia * (150 + Min(months_from_fra, 12 * 4)), 150)

spousal_base(pia_worker) == Frac(pia_worker, 2)

\* the factor, as a number of 720ths
spousal_reduction(months_early) ==
    IF months_early <= 0 THEN 720
    ELSE LET first == Min(months_early, 36)
             extra == Max(months_early - 36, 0)
         IN  Max(0, 720 - (5 * first + 3 * extra))

\* the factor, as a number of 25000ths (0.715 = 17875/25000, 0.00396 = 99/25000)
survivor_reduction(months_early) ==
    IF months_early <= 0 THEN 25000
    ELSE Max(17875, 25000 - months_early * 99)

\* ------------------------------------------------------------ data model

fra(p) == fra_for_birth_year(p.dob[1])

claim_date(p) == add_years_months(p.dob, p.claim_age_years, p.claim_age_months)

\* eol_date on the birthday of life_age itself
eol_date_at_life_age(p) == safe_eol_date(p.dob, p.life_age)

eol_date(p) == safe_eol_date(p.dob, p.life_age + 1)

\* ---------------------------------------------------------- benefit math

\* worker_monthly_at_claim with the full retirement age fixed at 67
worker_monthly_at_claim_fra67(p) ==
    retirement_adjustment(p.pia_at_fra,
        months_between(p.claim_age_years, p.claim_age_months, 67, 0))

worker_monthly_at_claim(p) ==
    LET months_from_fra == months_between(p.claim_age_years, p.claim_age_months,
                                          fra(p)[1], fra(p)[2])
    IN  retirement_adjustment(p.pia_at_fra, months_from_fra)

\* lines 115-129 of survivor_annual: the decedent's monthly benefit at death
dec_mo_at_death(decedent, death_date) ==
    LET claimed_by_death == DateLeq(claim_date(decedent), death_date)
        age == age_ym(decedent.dob, death_date)
        mf == months_between(age[1], age[2], fra(decedent)[1], fra(decedent)[2])
    IN  IF claimed_by_death
        THEN retirement_adjustment(decedent.pia_at_fra,
                 months_between(decedent.claim_age_years, decedent.claim_age_months,
                                fra(decedent)[1], fra(decedent)[2]))
        ELSE IF mf >= 0
        THEN retirement_adjustment(decedent.pia_at_fra,
                                   Min(mf, (70 - fra(decedent)[1]) * 12))
        ELSE Frac(decedent.pia_at_fra, 1)

\* the age gate of survivor_annual set at 59 years
surv_eligible_from_59(survivor, death_date) ==
    LET surv_age == age_ym(survivor.dob, death_date)
    IN  ~(surv_age[1] * 12 + surv_age[2] < 59 * 12)

\* lines 112-113: the age gate of survivor_annual
surv_eligible(survivor, death_date) ==
    LET surv_age == age_ym(survivor.dob, death_date)
    IN  ~(surv_age[1] * 12 + surv_age[2] < 60 * 12)

\* survivor_annual returning the higher of the survivor amount and the
\* survivor's own monthly amount
survivor_annual_higher_of_own(survivor, decedent, death_date) ==
    LET surv_age == age_ym(survivor.dob, death_date)
        dec_mo == dec_mo_at_death(decedent, death_date)
        months_early == Max(0, months_between(fra(survivor)[1], fra(survivor)[2],
                                              surv_age[1], surv_age[2]))
        factor == survivor_reduction(months_early)
        surv_mo == MMax(worker_monthly_at_claim(survivor),
                        MMin(dec_mo, MTimesFrac(dec_mo, factor, 25000)))
    IN  IF ~surv_eligible(survivor, death_date) THEN Zero
        ELSE MScale(surv_mo, 12)

survivor_annual(survivor, decedent, death_date) ==
    LET surv_age == age_ym(survivor.dob, death_date)
        dec_mo == dec_mo_at_death(decedent, death_date)
        months_early == Max(0, months_between(fra(survivor)[1], fra(survivor)[2],
                                              surv_age[1], surv_age[2]))
        factor == survivor_reduction(months_early)
        surv_mo == MMin(dec_mo, MTimesFrac(dec_mo, factor, 25000))
    IN  IF ~surv_eligible(survivor, death_date) THEN Zero
        ELSE MScale(surv_mo, 12)

\* ------------------------------------------------------------- projection

\* the dictionaries of the projection are keyed by p.name; a later person of
\* the same name overwrites an earlier one
Names(ppl) == {ppl[i].name : i \in 1..Len(ppl)}

LastIdx(ppl, n) ==
    CHOOSE i \in 1..Len(ppl) :
        ppl[i].name = n /\ \A j \in (i + 1)..Len(ppl) : ppl[j].name # n

eol_map(ppl) == [n \in Names(ppl) |-> eol_date(ppl[LastIdx(ppl, n)])]

claim_map(ppl) == [n \in Names(ppl) |-> claim_date(ppl[LastIdx(ppl, n)])]

mo_at_claim(ppl) ==
    [n \in Names(ppl) |-> worker_monthly_at_claim(ppl[LastIdx(ppl, n)])]

asof_of(st, yr) == add_years_months(st, yr, 0)

year_start_of(st, yr) == first_of_month(asof_of(st, yr))

\* year_end_excl_of at the window's twelfth month instead of the month after it
year_end_excl_of_twelfth_month(st, yr) ==
    first_of_month(add_years_months(asof_of(st, yr), 0, 11))

year_end_excl_of(st, yr) == first_of_month(add_years_months(asof_of(st, yr), 1, 0))

\* months_paid with the own window ending at the person's own death only
months_paid_own_death_only(ppl, idx, st, yr) ==
    LET p == ppl[idx]
    IN  clamp_months_in_year(first_of_month(claim_map(ppl)[p.name]),
                             first_of_month(eol_map(ppl)[p.name]),
                             year_start_of(st, yr), year_end_excl_of(st, yr))

\* months_paid with the own window of a couple ending at the later death
months_paid_until_later_death(ppl, idx, st, yr) ==
    LET p == ppl[idx]
        claim_first == first_of_month(claim_map(ppl)[p.name])
        own_death_first == first_of_month(eol_map(ppl)[p.name])
        own_window_end ==
            IF Len(ppl) = 2
            THEN DateMax(own_death_first,
                         first_of_month(eol_map(ppl)[ppl[3 - idx].name]))
            ELSE own_death_first
    IN  clamp_months_in_year(claim_first, own_window_end,
                             year_start_of(st, yr), year_end_excl_of(st, yr))

\* lines 155-165: months of own benefit of people[idx] in year yr
months_paid(ppl, idx, st, yr) ==
    LET p == ppl[idx]
        claim_first == first_of_month(claim_map(ppl)[p.name])
        own_death_first == first_of_month(eol_map(ppl)[p.name])
        own_window_end ==
            IF Len(ppl) = 2
            THEN DateMin(own_death_first,
                         first_of_month(eol_map(ppl)[ppl[3 - idx].name]))
            ELSE own_death_first
    IN  clamp_months_in_year(claim_first, own_window_end,
                             year_start_of(st, yr), year_end_excl_of(st, yr))

own_months_of(ppl, st, yr) ==
    [n \in Names(ppl) |-> months_paid(ppl, LastIdx(ppl, n), st, yr)]

\* line 166, from the months of lines 164-165
own_of(ppl, months_d) ==
    [n \in Names(ppl) |-> MScale(mo_at_claim(ppl)[n], months_d[n])]

\* spousal_amount paid from a's own claim month, whether or not b has claimed
spousal_amount_own_claim(ppl, a, b, st, yr) ==
    LET both_alive_end ==
            DateMin(DateMin(first_of_month(eol_map(ppl)[a.name]),
                            first_of_month(eol_map(ppl)[b.name])),
                    year_end_excl_of(st, yr))
        base == MMax(Zero, MSub(spousal_base(b.pia_at_fra), Frac(a.pia_at_fra, 1)))
        months_early ==
            Max(0, 0 - months_between(a.claim_age_years, a.claim_age_months,
                                      fra(a)[1], fra(a)[2]))
        sp_mo == MTimesFrac(base, spousal_reduction(months_early), 720)
    IN  MScale(sp_mo,
               clamp_months_in_year(first_of_month(claim_map(ppl)[a.name]),
                   both_alive_end, year_start_of(st, yr), year_end_excl_of(st, yr)))

\* spousal_amount with half of b's PIA as the base, a's own PIA not taken off
spousal_amount_no_offset(ppl, a, b, st, yr) ==
    LET both_alive_end ==
            DateMin(DateMin(first_of_month(eol_map(ppl)[a.name]),
                            first_of_month(eol_map(ppl)[b.name])),
                    year_end_excl_of(st, yr))
        base == MMax(Zero, spousal_base(b.pia_at_fra))
        months_early ==
            Max(0, 0 - months_between(a.claim_age_years, a.claim_age_months,
                                      fra(a)[1], fra(a)[2]))
        sp_mo == MTimesFrac(base, spousal_reduction(months_early), 720)
    IN  MScale(sp_mo,
               clamp_months_in_year(
                   first_of_month(DateMax(claim_map(ppl)[a.name], claim_map(ppl)[b.name])),
                   both_alive_end, year_start_of(st, yr), year_end_excl_of(st, yr)))

\* lines 174-178 (and 180-184 with the roles swapped): spousal of a on b's record
spousal_amount(ppl, a, b, st, yr) ==
    LET both_alive_end ==
            DateMin(DateMin(first_of_month(eol_map(ppl)[a.name]),
                            first_of_month(eol_map(ppl)[b.name])),
                    year_end_excl_of(st, yr))
        base == MMax(Zero, MSub(spousal_base(b.pia_at_fra), Frac(a.pia_at_fra, 1)))
        months_early ==
            Max(0, 0 - months_between(a.claim_age_years, a.claim_age_months,
                                      fra(a)[1], fra(a)[2]))
        sp_mo == MTimesFrac(base, spousal_reduction(months_early), 720)
    IN  MScale(sp_mo,
               clamp_months_in_year(
                   first_of_month(DateMax(claim_map(ppl)[a.name], claim_map(ppl)[b.name])),
                   both_alive_end, year_start_of(st, yr), year_end_excl_of(st, yr)))

\* spousal_of computing the first person's direction only
spousal_of_first_only(ppl, st, yr) ==
    LET sp0 == [n \in Names(ppl) |-> Zero]
    IN  IF Len(ppl) = 2
        THEN LET a == ppl[1]
                 b == ppl[2]
                 limit == add_years_months(asof_of(st, yr), 1, 0)
                 filed == /\ DateLeq(claim_map(ppl)[a.name], limit)
                          /\ DateLeq(claim_map(ppl)[b.name], limit)
             IN  IF filed
                 THEN [sp0 EXCEPT ![a.name] = spousal_amount(ppl, a, b, st, yr)]
                 ELSE sp0
        ELSE sp0

\* lines 169-184
spousal_of(ppl, st, yr) ==
    LET sp0 == [n \in Names(ppl) |-> Zero]
    IN  IF Len(ppl) = 2
        THEN LET a == ppl[1]
                 b == ppl[2]
                 limit == add_years_months(asof_of(st, yr), 1, 0)
                 filed == /\ DateLeq(claim_map(ppl)[a.name], limit)
                          /\ DateLeq(claim_map(ppl)[b.name], limit)
                 sp1 == IF filed
                        THEN [sp0 EXCEPT ![a.name] = spousal_amount(ppl, a, b, st, yr)]
                        ELSE sp0
             IN  IF filed
                 THEN [sp1 EXCEPT ![b.name] = spousal_amount(ppl, b, a, st, yr)]
                 ELSE sp1
        ELSE sp0

\* months_surv with the survivor paid from the death month itself
months_surv_from_death_month(dec_death_first, st, yr) ==
    LET year_start == year_start_of(st, yr)
        year_end_excl == year_end_excl_of(st, yr)
    IN  IF DateLeq(dec_death_first, year_start)
        THEN months_between_firsts(year_end_excl, year_start)
        ELSE IF DateLt(year_start, dec_death_first)
                /\ DateLeq(dec_death_first, year_end_excl)
        THEN Max(0, months_between_firsts(year_end_excl, dec_death_first))
        ELSE 0

\* months_surv without the full years after the death year
months_surv_death_year_only(dec_death_first, st, yr) ==
    LET year_start == year_start_of(st, yr)
        year_end_excl == year_end_excl_of(st, yr)
    IN  IF DateLt(year_start, dec_death_first)
           /\ DateLeq(dec_death_first, year_end_excl)
        THEN Max(0, months_between_firsts(year_end_excl,
                                          add_months(dec_death_first, 1)))
        ELSE 0

\* lines 193-209: months of the survivor switch credited in year yr
months_surv(dec_death_first, st, yr) ==
    LET year_start == year_start_of(st, yr)
        year_end_excl == year_end_excl_of(st, yr)
    IN  IF DateLeq(dec_death_first, year_start)
        THEN months_between_firsts(year_end_excl, year_start)
        ELSE IF DateLt(year_start, dec_death_first)
                /\ DateLeq(dec_death_first, year_end_excl)
        THEN Max(0, months_between_firsts(year_end_excl,
                                          add_months(dec_death_first, 1)))
        ELSE 0

\* add_surv paying the survivor amount without the higher-of comparison
add_surv_no_max(ppl, surv, dec, dec_death_first, st, yr) ==
    LET n == months_surv(dec_death_first, st, yr)
        surv_mo == MDivInt(survivor_annual(surv, dec, dec_death_first), 12)
    IN  IF n > 0 THEN MScale(surv_mo, n) ELSE Zero

\* lines 193-209: what add_surv adds to total[surv.name]
add_surv(ppl, surv, dec, dec_death_first, st, yr) ==
    LET n == months_surv(dec_death_first, st, yr)
        surv_mo == MDivInt(survivor_annual(surv, dec, dec_death_first), 12)
        own_mo == mo_at_claim(ppl)[surv.name]
    IN  IF n > 0 THEN MScale(MMax(surv_mo, own_mo), n) ELSE Zero

\* total_of with the survivor switch of the first two people in any household of
\* two or more
total_of_first_two(ppl, st, yr, own_d, spousal_d) ==
    LET t0 == [n \in Names(ppl) |-> MAdd(own_d[n], spousal_d[n])]
    IN  IF Len(ppl) >= 2
        THEN LET a == ppl[1]
                 b == ppl[2]
                 a_death == first_of_month(eol_map(ppl)[a.name])
                 b_death == first_of_month(eol_map(ppl)[b.name])
                 t1 == [t0 EXCEPT ![a.name] = MAdd(@, add_surv(ppl, a, b, b_death, st, yr))]
             IN  [t1 EXCEPT ![b.name] = MAdd(@, add_surv(ppl, b, a, a_death, st, yr))]
        ELSE t0

\* lines 186-211
total_of(ppl, st, yr, own_d, spousal_d) ==
    LET t0 == [n \in Names(ppl) |-> MAdd(own_d[n], spousal_d[n])]
    IN  IF Len(ppl) = 2
        THEN LET a == ppl[1]
                 b == ppl[2]
                 a_death == first_of_month(eol_map(ppl)[a.name])
                 b_death == first_of_month(eol_map(ppl)[b.name])
                 t1 == [t0 EXCEPT ![a.name] = MAdd(@, add_surv(ppl, a, b, b_death, st, yr))]
             IN  [t1 EXCEPT ![b.name] = MAdd(@, add_surv(ppl, b, a, a_death, st, yr))]
        ELSE t0

RECURSIVE SumOver(_, _)
SumOver(f, S) ==
    IF S = {} THEN Zero
    ELSE LET n == CHOOSE x \in S : TRUE
         IN  MAdd(f[n], SumOver(f, S \ {n}))

\* round(x, 2) or None
RoundOrNone(x) == IF round2(x) = 0 THEN None ELSE <<round2(x)>>

\* row_of numbering the years from 0
row_of_zero_based(ppl, st, yr, own_d, months_d, spousal_d, total_d) ==
    LET cols == {<<"", "Year">>, <<"", "Household Total SS">>}
                \cup (Names(ppl) \X {"Own", "Spousal", "Total SS", "Monthly@Claim",
                                     "MonthsPaidOwn", "OwnCalc"})
    IN  [c \in cols |->
            IF c = <<"", "Year">> THEN yr - 1
            ELSE IF c = <<"", "Household Total SS">>
            THEN <<round2(SumOver(total_d, Names(ppl)))>>
            ELSE IF c[2] = "Own" THEN RoundOrNone(own_d[c[1]])
            ELSE IF c[2] = "Spousal" THEN RoundOrNone(spousal_d[c[1]])
            ELSE IF c[2] = "Total SS" THEN RoundOrNone(total_d[c[1]])
            ELSE IF c[2] = "Monthly@Claim" THEN <<round2(mo_at_claim(ppl)[c[1]])>>
            ELSE IF c[2] = "MonthsPaidOwn" THEN months_d[c[1]]
            ELSE <<round2(MScale(mo_at_claim(ppl)[c[1]], months_d[c[1]]))>>]

\* row_of with the household total summed from the rounded totals
row_of_sum_of_rounded(ppl, st, yr, own_d, months_d, spousal_d, total_d) ==
    LET cols == {<<"", "Year">>, <<"", "Household Total SS">>}
                \cup (Names(ppl) \X {"Own", "Spousal", "Total SS", "Monthly@Claim",
                                     "MonthsPaidOwn", "OwnCalc"})
    IN  [c \in cols |->
            IF c = <<"", "Year">> THEN yr
            ELSE IF c = <<"", "Household Total SS">>
            THEN <<SumOver([n \in Names(ppl) |-> <<round2(total_d[n]), 0>>],
                           Names(ppl))[1]>>
            ELSE IF c[2] = "Own" THEN RoundOrNone(own_d[c[1]])
            ELSE IF c[2] = "Spousal" THEN RoundOrNone(spousal_d[c[1]])
            ELSE IF c[2] = "Total SS" THEN RoundOrNone(total_d[c[1]])
            ELSE IF c[2] = "Monthly@Claim" THEN <<round2(mo_at_claim(ppl)[c[1]])>>
            ELSE IF c[2] = "MonthsPaidOwn" THEN months_d[c[1]]
            ELSE <<round2(MScale(mo_at_claim(ppl)[c[1]], months_d[c[1]]))>>]

\* lines 213-222: the row of year yr, a mapping from column to value
row_of(ppl, st, yr, own_d, months_d, spousal_d, total_d) ==
    LET cols == {<<"", "Year">>, <<"", "Household Total SS">>}
                \cup (Names(ppl) \X {"Own", "Spousal", "Total SS", "Monthly@Claim",
                                     "MonthsPaidOwn", "OwnCalc"})
    IN  [c \in cols |->
            IF c = <<"", "Year">> THEN yr
            ELSE IF c = <<"", "Household Total SS">>
            THEN <<round2(SumOver(total_d, Names(ppl)))>>
            ELSE IF c[2] = "Own" THEN RoundOrNone(own_d[c[1]])
            ELSE IF c[2] = "Spousal" THEN RoundOrNone(spousal_d[c[1]])
            ELSE IF c[2] = "Total SS" THEN RoundOrNone(total_d[c[1]])
            ELSE IF c[2] = "Monthly@Claim" THEN <<round2(mo_at_claim(ppl)[c[1]])>>
            ELSE IF c[2] = "MonthsPaidOwn" THEN months_d[c[1]]
            ELSE <<round2(MScale(mo_at_claim(ppl)[c[1]], months_d[c[1]]))>>]

\* ----------------------------------------------------------------- inputs

MaxYears == 3

Person(n, dob, la, ca, pia) ==
    [name |-> n, dob |-> dob, life_age |-> la, claim_age_years |-> ca[1],
     claim_age_months |-> ca[2], pia_at_fra |-> pia]

Starts == {<<2025, 12, 31>>, <<2024, 2, 29>>}

Dobs == {<<1958, 11, 1>>, <<1960, 2, 29>>, <<1968, 8, 31>>}

\* death in 2027, in 2028, or far beyond the horizon
LifeAges(dob) == {2026 - dob[1], 2027 - dob[1], 95}

ClaimAges == {<<62, 0>>, <<68, 3>>}

Pias == {1000, 3500}

\* the two-person households draw both people from this pool
Pool(n) ==
    UNION {{Person(n, dob, la, ca, pia) :
                la \in LifeAges(dob), ca \in ClaimAges, pia \in Pias} : dob \in Dobs}

\* the one-person households add a zero PIA, a claim between the two ages and
\* the person of the specification's scenario
SinglePool ==
    UNION {{Person("A", dob, la, ca, pia) :
                la \in LifeAges(dob), ca \in ClaimAges \cup {<<66, 10>>},
                pia \in Pias \cup {0}} : dob \in Dobs}
    \cup {Person("A", <<1959, 6, 11>>, 85, <<66, 10>>, 3500)}

\* the three-person households: A dies in 2027 or late, B claims early or late,
\* C dies in 2028 or late
Triples ==
    {<<Person("A", <<1958, 11, 1>>, la, <<62, 0>>, 3500),
       Person("B", <<1960, 2, 29>>, 95, ca, 1000),
       Person("C", <<1968, 8, 31>>, lc, <<62, 0>>, 1000)>> :
        la \in {68, 95}, ca \in ClaimAges, lc \in {59, 95}}

Households ==
    {<<>>} \cup {<<a>> : a \in SinglePool}
           \cup {<<a, b>> : a \in Pool("A"), b \in Pool("B")}
           \cup Triples

\* the helpers called alone
MaxShift == 25

CalDates ==
    {<<1, 1, 31>>, <<1960, 2, 29>>, <<2024, 2, 29>>, <<2025, 8, 9>>, <<2025, 12, 31>>,
     <<9999, 12, 1>>}

BirthYears == 1930..1965

\* birth dates on days 29, 30 and 31, on the first and in mid-month
DayDobs ==
    {<<1960, 2, 29>>, <<1960, 1, 31>>, <<1959, 12, 31>>, <<1960, 3, 30>>, <<1961, 8, 29>>,
     <<1958, 11, 1>>, <<1960, 6, 15>>}

\* as-of dates before and after the birth dates
AsofDates ==
    {<<yr, mo, dd>> : yr \in {1958, 1959, 1960, 1961, 2022, 2027}, mo \in 1..12,
                      dd \in {1, 15, 28}}

\* firsts of month across a year boundary
MonthFirsts ==
    {<<2025, mo, 1>> : mo \in 10..12} \cup {<<2026, mo, 1>> : mo \in 1..4}

HelperCalls ==
    {<<"add_months", d, n>> : d \in CalDates, n \in (0 - MaxShift)..MaxShift}
    \cup {<<"add_years_months", d, yy, mm>> :
              d \in CalDates, yy \in {-1, 0, 1, 62, 70}, mm \in (0 - MaxShift)..MaxShift}
    \cup {<<"safe_eol_date", d, la>> : d \in CalDates, la \in {0, 1, 51, 96, 121}}
    \cup {<<"fra_for_birth_year", by>> : by \in BirthYears}
    \cup {<<"retirement_adjustment", pia, m>> : pia \in Pias \cup {0}, m \in -260..72}
    \cup {<<"worker_monthly_at_claim", Person("A", <<by, 6, 15>>, 95, <<cy, cm>>, pia)>> :
              by \in BirthYears, cy \in 62..70, cm \in 0..11, pia \in Pias}
    \cup {<<"eol_date", Person("A", dob, la, <<67, 0>>, 1000)>> :
              dob \in DayDobs, la \in 0..120}
    \cup {<<"age_ym", dob, asof>> : dob \in DayDobs, asof \in AsofDates}
    \cup {<<"clamp_months_in_year", a, b, c, d>> :
              a \in MonthFirsts, b \in MonthFirsts, c \in MonthFirsts, d \in MonthFirsts}
    \cup {<<"age_ym at claim_date", Person("A", dob, 95, <<cy, cm>>, 1000)>> :
              dob \in DayDobs, cy \in 62..70, cm \in 0..11}

\* survivor_annual called alone
SurvivorDobs == {<<1947, 5, 10>>, <<1960, 2, 29>>, <<1968, 8, 31>>}

DecedentDobs ==
    {<<1937, 6, 15>>, <<1940, 2, 29>>, <<1950, 1, 1>>, <<1958, 11, 1>>, <<1960, 2, 29>>}

DecedentClaimAges == {<<62, 0>>, <<70, 0>>, <<70, 11>>}

\* the decedent's age at death_date
DeathAges == {<<61, 0>>, <<64, 0>>, <<66, 6>>, <<69, 11>>, <<70, 6>>, <<72, 0>>}

DeathDates(dob) ==
    UNION {{add_years_months(dob, a[1], a[2]),
            first_of_month(add_years_months(dob, a[1], a[2]))} : a \in DeathAges}

SurvInputs ==
    UNION {{<<Person("S", sdob, 95, <<67, 0>>, 1000), Person("D", ddob, 95, ca, pia), dd>> :
                sdob \in SurvivorDobs, ca \in DecedentClaimAges,
                pia \in Pias \cup {0}, dd \in DeathDates(ddob)} : ddob \in DecedentDobs}

\* ---------------------------------------------------------------- actions

Empty == <<>>

Init ==
    /\ people \in Households
    /\ start \in Starts
    /\ years \in -1..MaxYears
    /\ pc = "call"
    /\ y = 0
    /\ rows = <<>>
    /\ own = Empty /\ own_months = Empty /\ spousal = Empty /\ total = Empty
    /\ surv_args = <<>>
    /\ surv_result = Empty
    /\ call = <<>>
    /\ ret = Empty

\* line 140: if years <= 0: return pd.DataFrame()
ReturnEmpty ==
    /\ pc = "call"
    /\ years <= 0
    /\ pc' = "done"
    /\ rows' = <<>>
    /\ UNCHANGED <<people, start, years, y, own, own_months, spousal, total,
                   surv_args, surv_result, call, ret>>

\* lines 147-223: one iteration of the year loop
YearRow ==
    /\ pc = "call"
    /\ years > 0
    /\ y < years
    /\ y' = y + 1
    /\ own_months' = own_months_of(people, start, y + 1)
    /\ own' = own_of(people, own_months')
    /\ spousal' = spousal_of(people, start, y + 1)
    /\ total' = total_of(people, start, y + 1, own', spousal')
    /\ rows' = Append(rows, row_of(people, start, y + 1, own', own_months',
                                   spousal', total'))
    /\ UNCHANGED <<people, start, years, pc, surv_args, surv_result, call, ret>>

\* line 225: return pd.DataFrame(rows)
Return ==
    /\ pc = "call"
    /\ years > 0
    /\ y = years
    /\ pc' = "done"
    /\ UNCHANGED <<people, start, years, y, rows, own, own_months, spousal, total,
                   surv_args, surv_result, call, ret>>

Next == ReturnEmpty \/ YearRow \/ Return

Spec == Init /\ [][Next]_vars

\* survivor_annual as a function of its arguments
InitSurv ==
    /\ surv_args \in SurvInputs
    /\ surv_result = Empty
    /\ pc = "surv_call"
    /\ people = <<>> /\ start = <<2025, 12, 31>> /\ years = 0 /\ y = 0
    /\ rows = <<>>
    /\ own = Empty /\ own_months = Empty /\ spousal = Empty /\ total = Empty
    /\ call = <<>>
    /\ ret = Empty

\* lines 110-136
CallSurvivorAnnual ==
    /\ pc = "surv_call"
    /\ pc' = "surv_done"
    /\ surv_result' =
           [eligible |-> surv_eligible(surv_args[1], surv_args[3]),
            dec_mo |-> IF surv_eligible(surv_args[1], surv_args[3])
                       THEN dec_mo_at_death(surv_args[2], surv_args[3])
                       ELSE None,
            ret |-> survivor_annual(surv_args[1], surv_args[2], surv_args[3])]
    /\ UNCHANGED <<people, start, years, y, rows, own, own_months, spousal, total,
                   surv_args, call, ret>>

NextSurv == CallSurvivorAnnual

SpecSurv == InitSurv /\ [][NextSurv]_vars

\* the helpers as functions of their arguments
InitHelper ==
    /\ call \in HelperCalls
    /\ ret = Empty
    /\ pc = "helper_call"
    /\ people = <<>> /\ start = <<2025, 12, 31>> /\ years = 0 /\ y = 0
    /\ rows = <<>>
    /\ own = Empty /\ own_months = Empty /\ spousal = Empty /\ total = Empty
    /\ surv_args = <<>>
    /\ surv_result = Empty

HelperUnchanged ==
    UNCHANGED <<people, start, years, y, rows, own, own_months, spousal, total,
                surv_args, surv_result, call>>

\* lines 65-70
CallAddMonths ==
    /\ pc = "helper_call" /\ call[1] = "add_months"
    /\ pc' = "helper_done"
    /\ ret' = date(add_months(call[2], call[3]))
    /\ HelperUnchanged

\* lines 57-62
CallAddYearsMonths ==
    /\ pc = "helper_call" /\ call[1] = "add_years_months"
    /\ pc' = "helper_done"
    /\ ret' = date(add_years_months(call[2], call[3], call[4]))
    /\ HelperUnchanged

\* lines 16-23
CallSafeEolDate ==
    /\ pc = "helper_call" /\ call[1] = "safe_eol_date"
    /\ pc' = "helper_done"
    /\ ret' = date(safe_eol_date(call[2], call[3]))
    /\ HelperUnchanged

\* lines 25-31
CallFraForBirthYear ==
    /\ pc = "helper_call" /\ call[1] = "fra_for_birth_year"
    /\ pc' = "helper_done"
    /\ ret' = [raised |-> FALSE, value |-> fra_for_birth_year(call[2])]
    /\ HelperUnchanged

\* lines 36-45
CallRetirementAdjustment ==
    /\ pc = "helper_call" /\ call[1] = "retirement_adjustment"
    /\ pc' = "helper_done"
    /\ ret' = [raised |-> FALSE, value |-> retirement_adjustment(call[2], call[3])]
    /\ HelperUnchanged

\* lines 105-108
CallWorkerMonthlyAtClaim ==
    /\ pc = "helper_call" /\ call[1] = "worker_monthly_at_claim"
    /\ pc' = "helper_done"
    /\ ret' = [raised |-> FALSE, value |-> worker_monthly_at_claim(call[2])]
    /\ HelperUnchanged

\* lines 101-102
CallEolDate ==
    /\ pc = "helper_call" /\ call[1] = "eol_date"
    /\ pc' = "helper_done"
    /\ ret' = date(eol_date(call[2]))
    /\ HelperUnchanged

\* lines 72-77
CallAgeYm ==
    /\ pc = "helper_call" /\ call[1] = "age_ym"
    /\ pc' = "helper_done"
    /\ ret' = [raised |-> FALSE, value |-> age_ym(call[2], call[3])]
    /\ HelperUnchanged

\* lines 82-85
CallClampMonthsInYear ==
    /\ pc = "helper_call" /\ call[1] = "clamp_months_in_year"
    /\ pc' = "helper_done"
    /\ ret' = [raised |-> FALSE,
               value |-> clamp_months_in_year(call[2], call[3], call[4], call[5])]
    /\ HelperUnchanged

\* lines 72-77 applied to the date of lines 99-100: age_ym(p.dob, p.claim_date)
CallAgeYmAtClaimDate ==
    /\ pc = "helper_call" /\ call[1] = "age_ym at claim_date"
    /\ pc' = "helper_done"
    /\ ret' = [raised |-> FALSE, value |-> age_ym(call[2].dob, claim_date(call[2]))]
    /\ HelperUnchanged

NextHelper ==
    \/ CallAddMonths
    \/ CallAddYearsMonths
    \/ CallSafeEolDate
    \/ CallFraForBirthYear
    \/ CallRetirementAdjustment
    \/ CallWorkerMonthlyAtClaim
    \/ CallEolDate
    \/ CallAgeYm
    \/ CallClampMonthsInYear
    \/ CallAgeYmAtClaimDate

SpecHelper == InitHelper /\ [][NextHelper]_vars

\* ----------------------------------------------------------------- claims

\* a month as a number, the months of a year window, a person's claim and death months
MonthNo(d) == d[1] * 12 + d[2] - 1

WinStart(yr) == MonthNo(year_start_of(start, yr))

WinMonths(yr) == WinStart(yr)..(MonthNo(year_end_excl_of(start, yr)) - 1)

ClaimMonth(p) == MonthNo(claim_date(p))

DeathMonth(p) == MonthNo(eol_date(p))

Projected == pc \in {"call", "done"} /\ y >= 1

\* the monthly spousal amount of self on other's record, as section 4.4 states it
SpousalMonthly(self, other) ==
    MTimesFrac(MMax(Zero, MSub(Frac(other.pia_at_fra, 2), Frac(self.pia_at_fra, 1))),
               spousal_reduction(Max(0, (fra(self)[1] * 12 + fra(self)[2])
                                        - (self.claim_age_years * 12 + self.claim_age_months))),
               720)

\* the monthly amount of the survivor switch: max(survivor_annual/12, own monthly)
SwitchMonthly(surv, dec) ==
    MMax(MDivInt(survivor_annual(surv, dec, first_of_month(eol_date(dec))), 12),
         worker_monthly_at_claim(surv))

\* what the current row credits n beyond own and spousal
SurvCredit(n) == MSub(total[n], MAdd(own[n], spousal[n]))

\* people[b] dies in the k-th month of year yr's window, after both have claimed,
\* and people[a] dies after people[b]
DiesInMonthK(a, b, yr, k) ==
    /\ Len(people) = 2
    /\ DateLt(eol_date(people[b]), eol_date(people[a]))
    /\ ClaimMonth(people[a]) < WinStart(yr)
    /\ ClaimMonth(people[b]) < WinStart(yr)
    /\ DeathMonth(people[b]) = WinStart(yr) + k - 1

OwnWindowMonths(i, yr) ==
    LET p == people[i]
        end == IF Len(people) = 2
               THEN Min(DeathMonth(p), DeathMonth(people[3 - i]))
               ELSE DeathMonth(p)
    IN  {m \in WinMonths(yr) : ClaimMonth(p) <= m /\ m < end}

\* C2: every person's Own is the monthly amount at claim times the number of
\* months of the year window in [claim month, end), end being the own death month,
\* or in a two-person household the earlier of the two death months.
C2_OwnProration ==
    Projected =>
        \A i \in 1..Len(people) :
            own[people[i].name] =
                MScale(worker_monthly_at_claim(people[i]), Cardinality(OwnWindowMonths(i, y)))

\* a row where the spouse's death, not the person's own, cuts the own months short
C2_Witness ==
    /\ Projected /\ Len(people) = 2
    /\ \E i \in 1..2 :
        /\ DeathMonth(people[3 - i]) < DeathMonth(people[i])
        /\ DeathMonth(people[3 - i]) \in WinMonths(y)
        /\ ClaimMonth(people[i]) \in WinMonths(y)
        /\ Cardinality(OwnWindowMonths(i, y)) \in 1..10
        /\ own[people[i].name] # Zero

\* no claim month and no death month of anyone lies in year yr's window
QuietYear(yr) ==
    \A i \in 1..Len(people) :
        ClaimMonth(people[i]) \notin WinMonths(yr) /\ DeathMonth(people[i]) \notin WinMonths(yr)

\* year yr lies after people[i]'s claim month and before every death month
FullYear(i, yr) ==
    /\ QuietYear(yr)
    /\ ClaimMonth(people[i]) < WinStart(yr)
    /\ \A j \in 1..Len(people) : DeathMonth(people[j]) > WinStart(yr)

\* C3: in a year with no claim or death month inside its window, after the
\* person's claim month and before every death month, Own is exactly 12 times the
\* monthly amount at claim.
C3_FullYearIsTwelveMonths ==
    Projected =>
        \A i \in 1..Len(people) :
            FullYear(i, y) =>
                own[people[i].name] = MScale(worker_monthly_at_claim(people[i]), 12)

\* a full year of a two-person household, paid in the row
C3_Witness ==
    /\ Projected /\ Len(people) = 2 /\ y >= 2
    /\ FullYear(1, y) /\ FullYear(2, y)
    /\ rows[y][<<"B", "MonthsPaidOwn">>] = 12
    /\ rows[y][<<"A", "Own">>] # None

\* a row's amount in cents, an absent (None) amount read as zero
CellCents(v) == IF v = None THEN 0 ELSE v[1]

\* retirement_adjustment(pia, months_between(claim age, fra)) * 12, rounded, in cents
TwelveMonthsRounded(p) ==
    round2(MScale(retirement_adjustment(p.pia_at_fra,
                      months_between(p.claim_age_years, p.claim_age_months,
                                     fra(p)[1], fra(p)[2])), 12))

\* C4 as stated: for one person whose claim date precedes the end of the year-1
\* window and who dies after that window, the year-1 Own is the adjusted monthly
\* amount times 12, rounded to 2 decimals.
C4_AsStated ==
    (Projected /\ Len(people) = 1) =>
        LET p == people[1]
        IN  (/\ DateLt(claim_date(p), year_end_excl_of(start, 1))
             /\ DeathMonth(p) >= MonthNo(year_end_excl_of(start, 1)))
            => CellCents(rows[1][<<p.name, "Own">>]) = TwelveMonthsRounded(p)

\* C4, amended: the same, for a claim month at or before the first month of the
\* year-1 window.
C4_ClaimedBeforeYearOne ==
    (Projected /\ Len(people) = 1) =>
        LET p == people[1]
        IN  (/\ ClaimMonth(p) <= WinStart(1)
             /\ DeathMonth(p) >= MonthNo(year_end_excl_of(start, 1)))
            => CellCents(rows[1][<<p.name, "Own">>]) = TwelveMonthsRounded(p)

\* the person of the specification's scenario, paid twelve months in year 1
C4_Witness ==
    /\ Projected /\ Len(people) = 1
    /\ people[1] = Person("A", <<1959, 6, 11>>, 85, <<66, 10>>, 3500)
    /\ ClaimMonth(people[1]) <= WinStart(1)
    /\ rows[1][<<"A", "MonthsPaidOwn">>] = 12
    /\ rows[1][<<"A", "Own">>] = <<TwelveMonthsRounded(people[1])>>

BothMonths(yr) ==
    {m \in WinMonths(yr) :
        /\ Max(ClaimMonth(people[1]), ClaimMonth(people[2])) <= m
        /\ m < Min(DeathMonth(people[1]), DeathMonth(people[2]))}

\* C6: in a two-person household each person's Spousal is
\* max(0, 0.5 * other.pia - self.pia) * spousal_reduction(months self claimed
\* before FRA) times the months of the window in which both have claimed and both
\* are alive, and is zero in a year ending at or before the later claim month.
C6_Spousal ==
    (Projected /\ Len(people) = 2) =>
        \A i \in 1..2 :
            LET self == people[i]
                other == people[3 - i]
            IN  /\ spousal[self.name] =
                       MScale(SpousalMonthly(self, other), Cardinality(BothMonths(y)))
                /\ MonthNo(year_end_excl_of(start, y))
                       <= Max(ClaimMonth(self), ClaimMonth(other))
                   => spousal[self.name] = Zero

\* a reduced spousal amount paid for part of a year, the other claim opening it
C6_Witness ==
    /\ Projected /\ Len(people) = 2
    /\ \E i \in 1..2 :
        /\ spousal[people[i].name] # Zero
        /\ Cardinality(BothMonths(y)) \in 1..11
        /\ ClaimMonth(people[3 - i]) \in WinMonths(y)
        /\ ClaimMonth(people[i]) < WinStart(y)
        /\ rows[y][<<people[i].name, "Spousal">>] # None
        /\ ~MLeq(Frac(people[3 - i].pia_at_fra - 2 * people[i].pia_at_fra, 2),
                 SpousalMonthly(people[i], people[3 - i]))

SurvReturned == pc = "surv_done"

\* the survivor's age at death_date in whole months, by age_ym
SurvivorAgeMonths ==
    age_ym(surv_args[1].dob, surv_args[3])[1] * 12 + age_ym(surv_args[1].dob, surv_args[3])[2]

\* C7: survivor_annual returns 0 whenever the survivor's age at death_date, in
\* whole months by age_ym, is below 720.
C7_UnderSixtyGetsNothing ==
    SurvReturned => (SurvivorAgeMonths < 720 => surv_result.ret = Zero)

\* a survivor of 59 years 11 months and a decedent with a benefit
C7_Witness ==
    /\ SurvReturned
    /\ SurvivorAgeMonths = 719
    /\ dec_mo_at_death(surv_args[2], surv_args[3]) # Zero
    /\ surv_result.ret = Zero

\* the decedent's at-death monthly amount as the specification states it
DecMoAsStated(decedent, death_date) ==
    LET age == age_ym(decedent.dob, death_date)
        mf == (age[1] * 12 + age[2]) - (fra(decedent)[1] * 12 + fra(decedent)[2])
    IN  IF DateLeq(claim_date(decedent), death_date)
        THEN worker_monthly_at_claim(decedent)
        ELSE IF mf >= 0
        THEN Frac(decedent.pia_at_fra * (150 + Min(mf, (70 - fra(decedent)[1]) * 12)), 150)
        ELSE Frac(decedent.pia_at_fra, 1)

\* C8 as stated: the decedent's at-death monthly amount is the amount at claim
\* once claimed; otherwise pia * (1 + 2/300 * min(mf, (70 - FRA_years) * 12)) for
\* mf >= 0 and the raw PIA for mf < 0, for every full retirement age.
C8_AsStated ==
    (SurvReturned /\ surv_result.eligible) =>
        surv_result.dec_mo = DecMoAsStated(surv_args[2], surv_args[3])

\* C9: for pia >= 0 survivor_annual is never negative and never more than 12
\* times the decedent's at-death monthly amount.
C9_SurvivorBounded ==
    (SurvReturned /\ surv_args[2].pia_at_fra >= 0) =>
        /\ MLeq(Zero, surv_result.ret)
        /\ MLeq(surv_result.ret, MScale(dec_mo_at_death(surv_args[2], surv_args[3]), 12))

\* a reduced survivor benefit: positive and strictly below the decedent's
C9_Witness ==
    /\ SurvReturned
    /\ surv_result.eligible
    /\ surv_result.ret # Zero
    /\ surv_result.ret # MScale(surv_result.dec_mo, 12)
    /\ MLeq(surv_result.ret, MScale(surv_result.dec_mo, 12))

\* C10: project returns no rows when years <= 0 and otherwise exactly `years`
\* rows whose Year values are 1, 2, ..., years in that order.
C10_OneRowPerYear ==
    pc = "done" =>
        IF years <= 0 THEN rows = <<>>
        ELSE /\ Len(rows) = years
             /\ \A i \in 1..years : rows[i][<<"", "Year">>] = i

\* a two-person projection over the whole horizon has returned
C10_Witness ==
    /\ pc = "done"
    /\ years = MaxYears
    /\ Len(people) = 2
    /\ Len(rows) = MaxYears
    /\ rows[MaxYears][<<"", "Year">>] = MaxYears

\* C11: in a household of any size other than two every row has a zero (absent)
\* Spousal for every person, adds no survivor amount, has Total equal to Own, and
\* pays Own for the months of the window from the person's claim month up to the
\* person's own death month, whoever else has died.
C11_OwnOnlyUnlessPair ==
    (Projected /\ Len(people) # 2) =>
        \A i \in 1..Len(people) :
            LET p == people[i]
            IN  /\ spousal[p.name] = Zero
                /\ rows[y][<<p.name, "Spousal">>] = None
                /\ SurvCredit(p.name) = Zero
                /\ total[p.name] = own[p.name]
                /\ rows[y][<<p.name, "Total SS">>] = rows[y][<<p.name, "Own">>]
                /\ own[p.name] =
                       MScale(worker_monthly_at_claim(p),
                              Cardinality({m \in WinMonths(y) :
                                              ClaimMonth(p) <= m /\ m < DeathMonth(p)}))

\* three people, one dead before the year's window, another with the lower PIA
\* paid own for all twelve months of it
C11_Witness ==
    /\ Projected /\ Len(people) = 3
    /\ \E i \in 1..3, j \in 1..3 :
        /\ DeathMonth(people[j]) <= WinStart(y)
        /\ ClaimMonth(people[j]) < DeathMonth(people[j])
        /\ 2 * people[j].pia_at_fra > people[i].pia_at_fra
        /\ own_months[people[i].name] = 12
        /\ own[people[i].name] # Zero
        /\ total[people[i].name] = own[people[i].name]

HelperReturned(f) == pc = "helper_done" /\ call[1] = f

\* the month a number of months away from d's month, and the year it falls in
TargetMonth(d, n) == MonthNo(d) + n

TargetYear(d, n) == TargetMonth(d, n) \div 12

\* ret is the date in month number m whose day is min(day, last day of the month)
IsClampedDateIn(m, day) ==
    /\ ~ret.raised
    /\ ret.value[2] \in 1..12
    /\ MonthNo(ret.value) = m
    /\ ret.value[3] = Min(day, monthrange(ret.value[1], ret.value[2]))
    /\ ret.value[3] >= 1

AgeLeq(a, b) == a[1] < b[1] \/ (a[1] = b[1] /\ a[2] <= b[2])

\* the full retirement age of the claim's table
FraTable(by) ==
    CASE by <= 1937 -> <<65, 0>>
      [] by \in 1938..1942 -> <<65, 2 * (by - 1937)>>
      [] by \in 1943..1954 -> <<66, 0>>
      [] by \in 1955..1959 -> <<66, 2 * (by - 1954)>>
      [] by >= 1960 -> <<67, 0>>

\* C14: fra_for_birth_year is (65,0) up to 1937, (65, 2*(y-1937)) for 1938-1942,
\* (66,0) for 1943-1954, (66, 2*(y-1954)) for 1955-1959 and (67,0) from 1960, its
\* months are always in 0..11, and it is non-decreasing in the birth year under
\* the lexicographic order of (years, months).
C14_FraStepFunction ==
    HelperReturned("fra_for_birth_year") =>
        /\ ret.value = FraTable(call[2])
        /\ ret.value[2] \in 0..11
        /\ \A earlier \in BirthYears :
               earlier <= call[2] => AgeLeq(fra_for_birth_year(earlier), ret.value)

\* a birth year on the second ramp: 1958 gives 66 years 8 months
C14_Witness ==
    /\ HelperReturned("fra_for_birth_year")
    /\ call[2] = 1958
    /\ ret.value = <<66, 8>>

\* C15: for pia >= 0 and m > 0, retirement_adjustment(pia, 0) is pia exactly,
\* retirement_adjustment(pia, -m) is at most pia and never negative, and
\* retirement_adjustment(pia, m) is at least pia.
C15_AdjustmentAroundPia ==
    (HelperReturned("retirement_adjustment") /\ call[2] >= 0) =>
        LET pia == Frac(call[2], 1)
        IN  /\ call[3] = 0 => ret.value = pia
            /\ call[3] < 0 => MLeq(ret.value, pia) /\ MLeq(Zero, ret.value)
            /\ call[3] > 0 => MLeq(pia, ret.value)

\* a claim so early that the reduction passes 100 percent: the result is zero
C15_Witness ==
    /\ HelperReturned("retirement_adjustment")
    /\ call[2] > 0
    /\ 4 * 36 + 3 * ((0 - call[3]) - 36) > 720
    /\ ret.value = Zero

\* the number of months from p's full retirement age to age 70
MonthsFraToSeventy(p) == months_between(70, 0, fra(p)[1], fra(p)[2])

\* C16 as stated: delayed credits are capped at age 70: for every birth year and
\* every claim age of 62..70 years and 0..11 months, worker_monthly_at_claim is at
\* most pia * (1 + 2/300 * the months from the person's full retirement age to
\* age 70), the amount of a claim at exactly 70 years 0 months.
C16_AsStated ==
    HelperReturned("worker_monthly_at_claim") =>
        MLeq(ret.value,
             Frac(call[2].pia_at_fra * (150 + MonthsFraToSeventy(call[2])), 150))

\* the support status the current row shows for n: 0 unpaid (pre-claim), 1 own,
\* 2 own and spousal, 3 survivor switch
Status(n) ==
    IF SurvCredit(n) # Zero THEN 3
    ELSE IF spousal[n] # Zero THEN 2
    ELSE IF own[n] # Zero THEN 1
    ELSE 0

\* at the start of year yr's window people[i] is alive and, in a two-person
\* household, so is the other
AliveUnwidowed(i, yr) ==
    /\ DeathMonth(people[i]) > WinStart(yr)
    /\ Len(people) = 2 => DeathMonth(people[3 - i]) > WinStart(yr)

SwitchMonths(dec, yr) ==
    IF DeathMonth(dec) <= WinStart(yr) THEN 12
    ELSE Cardinality({m \in WinMonths(yr) : m > DeathMonth(dec)})

\* the survivor-switch amount the current row adds for people[i]
SwitchAdded(i) ==
    IF Len(people) = 2
    THEN MScale(SwitchMonthly(people[i], people[3 - i]), SwitchMonths(people[3 - i], y))
    ELSE Zero

\* the persons' unrounded totals of the current row, summed in list order
HouseholdSum ==
    LET partial[k \in 0..Len(people)] ==
            IF k = 0 THEN Zero ELSE MAdd(partial[k - 1], total[people[k].name])
    IN  partial[Len(people)]

\* C18: in every row each person's Total is Own + Spousal + the survivor-switch
\* amount added for that person in that year, and Household Total SS is the sum
\* of the persons' unrounded totals rounded once to 2 decimals.
C18_TotalsAddUp ==
    Projected =>
        /\ \A i \in 1..Len(people) :
               LET n == people[i].name
               IN  /\ total[n] = MAdd(MAdd(own[n], spousal[n]), SwitchAdded(i))
                   /\ rows[y][<<n, "Total SS">>] = RoundOrNone(total[n])
        /\ rows[y][<<"", "Household Total SS">>] = <<round2(HouseholdSum)>>

\* a death-year row with own, spousal and survivor switch in one Total, whose
\* household total differs from the sum of the rounded Totals
C18_Witness ==
    /\ Projected /\ Len(people) = 2
    /\ \E i \in 1..2 :
        /\ own[people[i].name] # Zero
        /\ spousal[people[i].name] # Zero
        /\ SwitchAdded(i) # Zero
    /\ rows[y][<<"", "Household Total SS">>][1]
           # CellCents(rows[y][<<"A", "Total SS">>]) + CellCents(rows[y][<<"B", "Total SS">>])

\* C19 as stated: every row's set of columns is exactly Year, for each person
\* "<name> Own", "<name> Spousal" and "<name> Total SS", and Household Total SS;
\* no other columns are emitted.
C19_AsStated ==
    Projected =>
        \A i \in 1..Len(rows) :
            DOMAIN rows[i] =
                {<<"", "Year">>, <<"", "Household Total SS">>}
                \cup {<<people[k].name, c>> :
                          k \in 1..Len(people), c \in {"Own", "Spousal", "Total SS"}}

\* C20: in every row and for every person, the months of own benefit paid plus
\* the months of survivor switch credited are at most 12, so that no month is
\* paid both ways.
C20_NoMonthPaidTwice ==
    Projected =>
        \A i \in 1..Len(people) :
            LET n == people[i].name
                switch_months == IF Len(people) = 2
                                 THEN SwitchMonths(people[3 - i], y) ELSE 0
            IN  /\ rows[y][<<n, "MonthsPaidOwn">>] = own_months[n]
                /\ own[n] = MScale(worker_monthly_at_claim(people[i]), own_months[n])
                /\ SurvCredit(n) = SwitchAdded(i)
                /\ own_months[n] + switch_months <= 12

\* a death year in which the survivor is paid own months up to the death month
\* and the switch after it: eleven months in all
C20_Witness ==
    /\ Projected /\ Len(people) = 2
    /\ \E i \in 1..2 :
        /\ DeathMonth(people[3 - i]) \in WinMonths(y)
        /\ own_months[people[i].name] > 0
        /\ SwitchMonths(people[3 - i], y) > 0
        /\ own_months[people[i].name] + SwitchMonths(people[3 - i], y) = 11
        /\ SurvCredit(people[i].name) # Zero

\* C21: with every pia_at_fra >= 0, every amount of every row (Own, Spousal,
\* Total SS of each person, Household Total SS) is non-negative, and so is every
\* month count used for proration (own months, spousal months, survivor months).
C21_NothingNegative ==
    (Projected /\ \A i \in 1..Len(people) : people[i].pia_at_fra >= 0) =>
        /\ \A i \in 1..Len(people) :
               LET n == people[i].name
               IN  /\ own_months[n] >= 0
                   /\ MLeq(Zero, own[n]) /\ MLeq(Zero, spousal[n]) /\ MLeq(Zero, total[n])
                   /\ CellCents(rows[y][<<n, "Own">>]) >= 0
                   /\ CellCents(rows[y][<<n, "Spousal">>]) >= 0
                   /\ CellCents(rows[y][<<n, "Total SS">>]) >= 0
                   /\ rows[y][<<n, "MonthsPaidOwn">>] >= 0
        /\ rows[y][<<"", "Household Total SS">>][1] >= 0
        /\ Len(people) = 2 =>
               \A i \in 1..2 :
                   /\ months_surv(first_of_month(eol_date(people[i])), start, y) >= 0
                   /\ MLeq(Zero, SurvCredit(people[i].name))

\* a row of a year that ends before a person's claim month, or starts after the
\* person's death month: the month difference is negative and nothing is paid
C21_Witness ==
    /\ Projected
    /\ \E i \in 1..Len(people) :
        /\ people[i].pia_at_fra > 0
        /\ \/ ClaimMonth(people[i]) > MonthNo(year_end_excl_of(start, y))
           \/ DeathMonth(people[i]) < WinStart(y)
        /\ own_months[people[i].name] = 0
        /\ own[people[i].name] = Zero
        /\ rows[y][<<people[i].name, "Own">>] = None

\* C22: for every dob and every life_age >= 0, eol_date is the date in year
\* dob.year + life_age + 1 with dob's month and day = min(dob.day, last day of
\* that month), and eol_date > dob.
C22_EolDateIsNextBirthday ==
    (HelperReturned("eol_date") /\ call[2].life_age >= 0) =>
        LET dob == call[2].dob
        IN  /\ ~ret.raised
            /\ ret.value[1] = dob[1] + call[2].life_age + 1
            /\ ret.value[2] = dob[2]
            /\ ret.value[3] = Min(dob[3], monthrange(ret.value[1], ret.value[2]))
            /\ DateLt(dob, ret.value)

\* born on February 29, the end of life falls on February 28 of a common year
C22_Witness ==
    /\ HelperReturned("eol_date")
    /\ call[2].dob = <<1960, 2, 29>>
    /\ ~IsLeap(ret.value[1])
    /\ ret.value[2] = 2 /\ ret.value[3] = 28

\* C23 as stated: for all dates dob and asof, age_ym returns (years, months) with
\* years >= 0 and months in 0..11, and (0, 0) whenever asof is earlier than dob.
C23_AsStated ==
    HelperReturned("age_ym") =>
        /\ ~ret.raised
        /\ ret.value[1] >= 0
        /\ ret.value[2] \in 0..11
        /\ DateLt(call[3], call[2]) => ret.value = <<0, 0>>

\* the calendar months of the half-open range [a, b) of firsts of month
MonthsOf(a, b) == MonthNo(a)..(MonthNo(b) - 1)

\* C24: for firsts of month, clamp_months_in_year(range, window) is the number of
\* calendar months lying in both half-open ranges; it is 0 when the intersection
\* is empty or either range is inverted, never negative, never more than the
\* number of months of either range, and the same with the two ranges swapped.
C24_MonthsInOverlap ==
    HelperReturned("clamp_months_in_year") =>
        LET range == MonthsOf(call[2], call[3])
            window == MonthsOf(call[4], call[5])
        IN  /\ ret.value = Cardinality(range \cap window)
            /\ (range \cap window = {}) => ret.value = 0
            /\ (DateLeq(call[3], call[2]) \/ DateLeq(call[5], call[4])) => ret.value = 0
            /\ ret.value >= 0
            /\ ret.value <= Cardinality(range) /\ ret.value <= Cardinality(window)
            /\ ret.value = clamp_months_in_year(call[4], call[5], call[2], call[3])

\* a range that starts before the window and ends inside it: a partial overlap
C24_Witness ==
    /\ HelperReturned("clamp_months_in_year")
    /\ DateLt(call[2], call[4]) /\ DateLt(call[4], call[3]) /\ DateLt(call[3], call[5])
    /\ ret.value = MonthNo(call[3]) - MonthNo(call[4])
    /\ ret.value >= 2

\* C25 as stated: no benefit is paid to a dead person: in every year whose window
\* starts at or after a person's own death month, that person's Own, Spousal and
\* Total SS are all zero/absent, in one-person and in two-person households, also
\* after the other person has died.
C25_AsStated ==
    Projected =>
        \A i \in 1..Len(people) :
            DeathMonth(people[i]) <= WinStart(y) =>
                /\ rows[y][<<people[i].name, "Own">>] = None
                /\ rows[y][<<people[i].name, "Spousal">>] = None
                /\ rows[y][<<people[i].name, "Total SS">>] = None

\* C26 as stated: a widowed person who is not survivor-eligible (under 60 at the
\* spouse's death month, survivor_annual returning 0) and whose own claim month
\* has not been reached is credited nothing: Total SS is zero/absent in every
\* year that ends at or before the own claim month.
C26_AsStated ==
    (Projected /\ Len(people) = 2) =>
        \A s \in 1..2 :
            LET surv == people[s]
                dec == people[3 - s]
                dec_death_first == first_of_month(eol_date(dec))
            IN  (/\ DeathMonth(dec) < MonthNo(year_end_excl_of(start, y))
                 /\ ~surv_eligible(surv, dec_death_first)
                 /\ survivor_annual(surv, dec, dec_death_first) = Zero
                 /\ MonthNo(year_end_excl_of(start, y)) <= ClaimMonth(surv))
                => rows[y][<<surv.name, "Total SS">>] = None

\* C27 as stated: for every person, age_ym at the person's own claim_date is
\* (claim_age_years, claim_age_months), for every dob, days 29, 30 and 31
\* included, where claim_date is clamped to a shorter month.
C27_AsStated ==
    HelperReturned("age_ym at claim_date") =>
        ret.value = <<call[2].claim_age_years, call[2].claim_age_months>>

\* the own months paid in the rows so far, summed
OwnMonthsSoFar(n) ==
    LET partial[k \in 0..Len(rows)] ==
            IF k = 0 THEN 0 ELSE partial[k - 1] + rows[k][<<n, "MonthsPaidOwn">>]
    IN  partial[Len(rows)]

\* C28: the year windows tile the horizon: every window is exactly 12 months
\* long and the exclusive end of year y's window is the start of year y+1's, for
\* every start date; hence, for one person, the own months paid summed over the
\* rows are the months of [claim month, death month) that fall inside
\* [start of window 1, end of the last window).
C28_WindowsTile ==
    Projected =>
        /\ \A j \in 1..y :
               /\ year_start_of(start, j)[3] = 1
               /\ MonthNo(year_end_excl_of(start, j)) - MonthNo(year_start_of(start, j)) = 12
               /\ year_end_excl_of(start, j) = year_start_of(start, j + 1)
        /\ MonthNo(year_start_of(start, 1)) = MonthNo(start) + 12
        /\ Len(people) = 1 =>
               OwnMonthsSoFar(people[1].name) =
                   Cardinality({m \in (MonthNo(start) + 12)..(MonthNo(start) + 12 * (y + 1) - 1) :
                                   ClaimMonth(people[1]) <= m /\ m < DeathMonth(people[1])})

\* one person who claims inside the first window and dies inside a later one,
\* paid across the window boundaries
C28_Witness ==
    /\ Projected /\ Len(people) = 1 /\ y >= 2
    /\ ClaimMonth(people[1]) > MonthNo(start) + 12
    /\ DeathMonth(people[1]) < MonthNo(start) + 12 * (y + 1)
    /\ OwnMonthsSoFar(people[1].name) = DeathMonth(people[1]) - ClaimMonth(people[1])
    /\ OwnMonthsSoFar(people[1].name) > 12

\* C29: in a two-person household with non-negative PIAs at most one of the two
\* people has a positive Spousal amount in any row.
C29_OneSpousalDirection ==
    (/\ Projected /\ Len(people) = 2
     /\ people[1].pia_at_fra >= 0 /\ people[2].pia_at_fra >= 0) =>
        /\ ~(/\ spousal[people[1].name] # Zero /\ MLeq(Zero, spousal[people[1].name])
             /\ spousal[people[2].name] # Zero /\ MLeq(Zero, spousal[people[2].name]))
        /\ ~(/\ rows[y][<<people[1].name, "Spousal">>] # None
             /\ rows[y][<<people[2].name, "Spousal">>] # None)

\* a row paying Spousal to the person with the lower PIA and none to the other
C29_Witness ==
    /\ Projected /\ Len(people) = 2
    /\ \E i \in 1..2 :
        /\ 2 * people[i].pia_at_fra < people[3 - i].pia_at_fra
        /\ rows[y][<<people[i].name, "Spousal">>] # None
        /\ rows[y][<<people[3 - i].name, "Spousal">>] = None
        /\ own[people[3 - i].name] # Zero

\* the household with its two people in the other order
Swapped == <<people[2], people[1]>>

\* C30: the projection does not depend on the order of the two people: the row
\* project([B, A], start, h) builds for the same year has the same Own, Spousal
\* and Total SS for A, the same for B, and the same Household Total SS.
C30_OrderIndependent ==
    (Projected /\ Len(people) = 2) =>
        LET months_d == own_months_of(Swapped, start, y)
            own_d == own_of(Swapped, months_d)
            spousal_d == spousal_of(Swapped, start, y)
            total_d == total_of(Swapped, start, y, own_d, spousal_d)
            row == row_of(Swapped, start, y, own_d, months_d, spousal_d, total_d)
        IN  \A c \in {<<"", "Household Total SS">>}
                      \cup ({"A", "B"} \X {"Own", "Spousal", "Total SS"}) :
                rows[y][c] = row[c]

\* a row in which the two people differ in every amount: spousal on one side,
\* survivor switch on the other
C30_Witness ==
    /\ Projected /\ Len(people) = 2
    /\ people[1].pia_at_fra # people[2].pia_at_fra
    /\ own[people[1].name] # own[people[2].name]
    /\ \E i \in 1..2 :
        /\ spousal[people[i].name] # Zero
        /\ SurvCredit(people[i].name) # Zero
        /\ SurvCredit(people[3 - i].name) = Zero

====
